---- MODULE Spec2Model ----
(***************************************************************************)
(* The car selector widget of frontend/src/components/                     *)
(* InteractiveCarSelector.tsx: the four-valued selector state, the         *)
(* selection context, the product fetch and the client-side filter.        *)
(*                                                                         *)
(* A string is a tuple of one-character strings, so that toLowerCase and   *)
(* includes are computed and not assumed.  An object of the store or of    *)
(* the API is a record; an optional field that is missing is missing from  *)
(* the record's domain.                                                    *)
(***************************************************************************)
EXTENDS Integers, Sequences, FiniteSets

VARIABLES
    carBrands,        \* useAppStore(state => state.carBrands)
    carModels,        \* useAppStore(state => state.carModels)
    selectorState,    \* useState<SelectorState>('collapsed')
    selectedBrand,    \* useState<CarBrand | null>(null)
    selectedModel,    \* useState<CarModel | null>(null)
    products,         \* useState<Product[]>([])
    loadingProducts,  \* useState(false)
    searchQuery,      \* useState('')
    priceFilter,      \* useState<'all' | 'low' | 'medium' | 'high'>('all')
    pending,          \* the productApi.getAll promises not yet settled
    issued,           \* how many productApi.getAll requests were made
    last,             \* history: the event that led to this state
    walk,             \* history: how far the run follows GuidedWalk (-1: it left it)
    selections,       \* history: how many times a model was selected
    queries,          \* the query cache of queryClient: a state for each query key
    online,           \* onlineManager.isOnline()
    storage,          \* what AsyncStorage holds under 'alghazaly-query-cache'
    clock,            \* Date.now(), in milliseconds
    running           \* whether the process is alive

widget == <<selectorState, selectedBrand, selectedModel, products,
            loadingProducts, searchQuery, priceFilter>>
store == <<carBrands, carModels>>
\* The selector widget with its store and its history
selector == <<carBrands, carModels, selectorState, selectedBrand, selectedModel,
              products, loadingProducts, searchQuery, priceFilter, pending,
              issued, last, walk, selections>>
\* The cache/query layer of QueryProvider.tsx
layer == <<queries, online, storage, clock, running>>
vars == <<carBrands, carModels, selectorState, selectedBrand, selectedModel,
          products, loadingProducts, searchQuery, priceFilter, pending, issued,
          last, walk, selections, queries, online, storage, clock,
          running>>

\* ------------------------------------------------------------------ bounds

\* Requests a run may issue (handleModelSelect is not taken beyond it).
MaxFetches == 3
\* Longest product list drawn as an input of the filter.
MaxProducts == 2
\* Longest search text drawn as an input of the filter.
MaxQueryLen == 3
\* Longest brand list and longest model list drawn as inputs of the grids.
MaxGrid == 11

\* ------------------------------------------------------------- the store

GRID_COLUMNS == 5
GRID_ROWS == 2

\* null of a useState<... | null>
Null == [id |-> "null"]

\* The brands the store holds once it is loaded: two brands
loadedBrands ==
    << [id |-> "B1", name |-> <<"B","M","W">>],
       [id |-> "B2", name |-> <<"K","i","a">>] >>

\* The models the store holds once it is loaded: two of B1, one of B2
loadedModels ==
    << [id |-> "M1", name |-> <<"X","1">>, brand_id |-> "B1"],
       [id |-> "M2", name |-> <<"X","2">>, brand_id |-> "B1"],
       [id |-> "M3", name |-> <<"R","i","o">>, brand_id |-> "B2"] >>

Min(a, b) == IF a < b THEN a ELSE b

\* Array.prototype.slice(0, n)
slice(s, n) == SubSeq(s, 1, Min(n, Len(s)))

Range(s) == {s[i] : i \in DOMAIN s}

displayBrands == slice(carBrands, GRID_COLUMNS * GRID_ROWS)

\* filteredModels with the slice taken before the filter
filteredModels_sliceFirst ==
    IF selectedBrand # Null
    THEN SelectSeq(slice(carModels, GRID_COLUMNS * GRID_ROWS),
                   LAMBDA m : m.brand_id = selectedBrand.id)
    ELSE <<>>

filteredModels ==
    IF selectedBrand # Null
    THEN slice(SelectSeq(carModels, LAMBDA m : m.brand_id = selectedBrand.id),
               GRID_COLUMNS * GRID_ROWS)
    ELSE <<>>

\* ---------------------------------------------------------- the products

\* Products of the catalogue.  name_ar and sku are optional.
P1 == [id |-> "p1", name |-> <<"a","b","c","-","1","2","3">>, price |-> 100]
P2 == [id |-> "p2", name |-> <<"A","b">>, name_ar |-> <<"z">>,
       sku |-> <<"C","1">>, price |-> 500]
P3 == [id |-> "p3", name |-> <<"b">>, sku |-> <<"A","B">>, price |-> 99]
P4 == [id |-> "p4", name |-> <<"c","c">>, name_ar |-> <<"b","A">>, price |-> 499]
P5 == [id |-> "p5", name |-> <<"B","C">>, price |-> 0]

Catalogue == {P1, P2, P3, P4, P5}

\* What the server holds for each model.
ApiProducts(modelId) ==
    CASE modelId = "M1" -> <<P1, P2>>
      [] modelId = "M2" -> <<P3>>
      [] OTHER -> <<>>

\* The responses productApi.getAll may resolve with: the page of products, or
\* a body with no products list.
Responses(modelId) ==
    { [data |-> [products |-> ApiProducts(modelId)]],
      [data |-> [total |-> 0]] }

\* response.data?.products || []
productsOf(response) ==
    IF "data" \in DOMAIN response /\ "products" \in DOMAIN response.data
    THEN response.data.products
    ELSE <<>>

\* -------------------------------------------------------------- filtering

\* String.prototype.toLowerCase, one character
lowerChar(c) ==
    CASE c = "A" -> "a"
      [] c = "B" -> "b"
      [] c = "C" -> "c"
      [] OTHER -> c

toLowerCase(s) == [i \in DOMAIN s |-> lowerChar(s[i])]

\* s starts with q at offset k (0-based)
RECURSIVE matchAt(_, _, _, _)
matchAt(s, q, k, j) ==
    IF j > Len(q) THEN TRUE
    ELSE IF k + j > Len(s) THEN FALSE
    ELSE IF s[k + j] # q[j] THEN FALSE
    ELSE matchAt(s, q, k, j + 1)

\* String.prototype.includes: scan the offsets from the left
RECURSIVE scanFrom(_, _, _)
scanFrom(s, q, k) ==
    IF k + Len(q) > Len(s) THEN FALSE
    ELSE IF matchAt(s, q, k, 1) THEN TRUE
    ELSE scanFrom(s, q, k + 1)

includes(s, q) == scanFrom(s, q, 0)

\* p.<field>?.toLowerCase().includes(q.toLowerCase())
fieldMatches(p, f, q) ==
    IF f \in DOMAIN p
    THEN includes(toLowerCase(p[f]), toLowerCase(q))
    ELSE FALSE

\* matchesSearch with the SKU comparison left out
matchesSearch_withoutSku(p, q) ==
    \/ q = <<>>
    \/ fieldMatches(p, "name", q)
    \/ fieldMatches(p, "name_ar", q)

matchesSearch(p, q) ==
    \/ q = <<>>
    \/ fieldMatches(p, "name", q)
    \/ fieldMatches(p, "name_ar", q)
    \/ fieldMatches(p, "sku", q)

\* matchesPrice with the comparisons at the two boundaries turned around
matchesPrice_boundariesShifted(p, filter) ==
    IF filter = "low" THEN p.price <= 100
    ELSE IF filter = "medium" THEN p.price > 100 /\ p.price <= 500
    ELSE IF filter = "high" THEN p.price > 500
    ELSE TRUE

matchesPrice(p, filter) ==
    IF filter = "low" THEN p.price < 100
    ELSE IF filter = "medium" THEN p.price >= 100 /\ p.price < 500
    ELSE IF filter = "high" THEN p.price >= 500
    ELSE TRUE

\* products.filter(p => matchesSearch && matchesPrice)
filterBy(list, q, filter) ==
    SelectSeq(list, LAMBDA p : matchesSearch(p, q) /\ matchesPrice(p, filter))

filteredProducts == filterBy(products, searchQuery, priceFilter)

\* ------------------------------------------------------------- rendering

\* The widget without its early return
Rendered_always == TRUE

\* if (carBrands.length === 0) return null
Rendered == Len(carBrands) # 0

\* The brand breadcrumb: selectorState !== 'collapsed' && selectedBrand
BrandCrumbShown ==
    Rendered /\ selectorState # "collapsed" /\ selectedBrand # Null

\* The model breadcrumb: selectorState !== 'collapsed' && selectedModel
ModelCrumbShown ==
    Rendered /\ selectorState # "collapsed" /\ selectedModel # Null

\* The grid: selectorState === 'brands' || selectorState === 'models'
GridShown == Rendered /\ selectorState \in {"brands", "models"}

\* The products panel is slid onto the screen in 'products' and off it
\* (translateY: height) in every other state.
PanelShown == Rendered /\ selectorState = "products"

\* The product cards: not while loading, and only for a non-empty list
CardsShown == PanelShown /\ ~loadingProducts /\ filteredProducts # <<>>

\* ---------------------------------------------------------------- the fetch

\* fetchProductsForModel up to its await: the flag is raised and the request
\* is made.
fetchProductsForModel(modelId) ==
    /\ loadingProducts' = TRUE
    /\ issued' = issued + 1
    /\ pending' = pending \cup {[seq |-> issued + 1, car_model_id |-> modelId,
                                 limit |-> 100]}

\* fetchResolved without the finally block
fetchResolved_withoutFinally(f, response) ==
    /\ f \in pending
    /\ pending' = pending \ {f}
    /\ products' = productsOf(response)
    /\ UNCHANGED <<selectorState, selectedBrand, selectedModel, searchQuery,
                   priceFilter, issued, loadingProducts>>

\* fetchResolved that also empties the search box
fetchResolved_clearsSearch(f, response) ==
    /\ f \in pending
    /\ pending' = pending \ {f}
    /\ products' = productsOf(response)
    /\ loadingProducts' = FALSE
    /\ searchQuery' = <<>>
    /\ UNCHANGED <<selectorState, selectedBrand, selectedModel, priceFilter,
                   issued>>

\* The await returns: setProducts(response.data?.products || []), then finally.
fetchResolved(f, response) ==
    /\ f \in pending
    /\ pending' = pending \ {f}
    /\ products' = productsOf(response)
    /\ loadingProducts' = FALSE
    /\ UNCHANGED <<selectorState, selectedBrand, selectedModel, searchQuery,
                   priceFilter, issued>>

\* fetchRejected with a catch block that does not empty the list
fetchRejected_keepsList(f) ==
    /\ f \in pending
    /\ pending' = pending \ {f}
    /\ loadingProducts' = FALSE
    /\ UNCHANGED <<selectorState, selectedBrand, selectedModel, products,
                   searchQuery, priceFilter, issued>>

\* fetchRejected with a catch block that makes the request again
fetchRejected_retries(f) ==
    /\ f \in pending
    /\ issued < MaxFetches
    /\ pending' = (pending \ {f}) \cup {[f EXCEPT !.seq = issued + 1]}
    /\ issued' = issued + 1
    /\ products' = <<>>
    /\ loadingProducts' = FALSE
    /\ UNCHANGED <<selectorState, selectedBrand, selectedModel, searchQuery,
                   priceFilter>>

\* fetchRejected without the finally block
fetchRejected_withoutFinally(f) ==
    /\ f \in pending
    /\ pending' = pending \ {f}
    /\ products' = <<>>
    /\ UNCHANGED <<selectorState, selectedBrand, selectedModel, searchQuery,
                   priceFilter, issued, loadingProducts>>

\* The await throws: console.error, setProducts([]), then finally.
fetchRejected(f) ==
    /\ f \in pending
    /\ pending' = pending \ {f}
    /\ products' = <<>>
    /\ loadingProducts' = FALSE
    /\ UNCHANGED <<selectorState, selectedBrand, selectedModel, searchQuery,
                   priceFilter, issued>>

\* ------------------------------------------------------------- the handlers

\* handleAnchorPress whose collapse does not reset the search text
handleAnchorPress_keepsSearch ==
    /\ Rendered
    /\ IF selectorState = "collapsed"
       THEN /\ selectorState' = "brands"
            /\ UNCHANGED <<selectedBrand, selectedModel, products, searchQuery,
                           priceFilter>>
       ELSE /\ selectorState' = "collapsed"
            /\ selectedBrand' = Null
            /\ selectedModel' = Null
            /\ products' = <<>>
            /\ priceFilter' = "all"
            /\ UNCHANGED searchQuery
    /\ UNCHANGED <<loadingProducts, pending, issued>>

handleAnchorPress ==
    /\ Rendered
    /\ IF selectorState = "collapsed"
       THEN /\ selectorState' = "brands"
            /\ UNCHANGED <<selectedBrand, selectedModel, products, searchQuery,
                           priceFilter>>
       ELSE /\ selectorState' = "collapsed"
            /\ selectedBrand' = Null
            /\ selectedModel' = Null
            /\ products' = <<>>
            /\ searchQuery' = <<>>
            /\ priceFilter' = "all"
    /\ UNCHANGED <<loadingProducts, pending, issued>>

handleBrandSelect(brand) ==
    /\ selectedBrand' = brand
    /\ selectorState' = "models"
    /\ UNCHANGED <<selectedModel, products, loadingProducts, searchQuery,
                   priceFilter, pending, issued>>

\* handleModelSelect without setSelectedModel(model)
handleModelSelect_keepsModel(model) ==
    /\ issued < MaxFetches
    /\ selectorState' = "products"
    /\ fetchProductsForModel(model.id)
    /\ UNCHANGED <<selectedBrand, selectedModel, products, searchQuery,
                   priceFilter>>

\* handleModelSelect that requests the products of the first model
handleModelSelect_fetchesFirstModel(model) ==
    /\ issued < MaxFetches
    /\ selectedModel' = model
    /\ selectorState' = "products"
    /\ fetchProductsForModel(carModels[1].id)
    /\ UNCHANGED <<selectedBrand, products, searchQuery, priceFilter>>

handleModelSelect(model) ==
    /\ issued < MaxFetches
    /\ selectedModel' = model
    /\ selectorState' = "products"
    /\ fetchProductsForModel(model.id)
    /\ UNCHANGED <<selectedBrand, products, searchQuery, priceFilter>>

\* A grid tile: a brand in 'brands', a model in every other state of the grid
gridItemPress(item) ==
    /\ GridShown
    /\ IF selectorState = "brands"
       THEN item \in Range(displayBrands) /\ handleBrandSelect(item)
       ELSE item \in Range(filteredModels) /\ handleModelSelect(item)

\* The model breadcrumb and the panel's back button
handleBackToModels ==
    /\ ModelCrumbShown \/ PanelShown
    /\ selectorState' = "models"
    /\ selectedModel' = Null
    /\ products' = <<>>
    /\ UNCHANGED <<selectedBrand, loadingProducts, searchQuery, priceFilter,
                   pending, issued>>

\* handleBackToBrands without setSelectedModel(null)
handleBackToBrands_keepsModel ==
    /\ BrandCrumbShown
    /\ selectorState' = "brands"
    /\ selectedBrand' = Null
    /\ UNCHANGED <<selectedModel, products, loadingProducts, searchQuery,
                   priceFilter, pending, issued>>

\* The brand breadcrumb
handleBackToBrands ==
    /\ BrandCrumbShown
    /\ selectorState' = "brands"
    /\ selectedBrand' = Null
    /\ selectedModel' = Null
    /\ UNCHANGED <<products, loadingProducts, searchQuery, priceFilter,
                   pending, issued>>

\* A product card; router.push leaves the widget mounted ("collapse after
\* navigation")
handleProductPress(productId) ==
    /\ CardsShown
    /\ \E i \in DOMAIN filteredProducts : filteredProducts[i].id = productId
    /\ selectorState' = "collapsed"
    /\ selectedBrand' = Null
    /\ selectedModel' = Null
    /\ products' = <<>>
    /\ UNCHANGED <<loadingProducts, searchQuery, priceFilter, pending, issued>>

\* The grid's View All tile: router.push, then setSelectorState('collapsed')
viewAllPress ==
    /\ GridShown
    /\ selectorState' = "collapsed"
    /\ UNCHANGED <<selectedBrand, selectedModel, products, loadingProducts,
                   searchQuery, priceFilter, pending, issued>>

\* The panel's close button: setSelectorState('collapsed')
closePress ==
    /\ PanelShown
    /\ selectorState' = "collapsed"
    /\ UNCHANGED <<selectedBrand, selectedModel, products, loadingProducts,
                   searchQuery, priceFilter, pending, issued>>

\* The search box: onChangeText={setSearchQuery}
setSearchQuery(text) ==
    /\ PanelShown
    /\ searchQuery' = text
    /\ UNCHANGED <<selectorState, selectedBrand, selectedModel, products,
                   loadingProducts, priceFilter, pending, issued>>

\* A filter chip that also empties the fetched list
setPriceFilter_emptiesList(filter) ==
    /\ PanelShown
    /\ priceFilter' = filter
    /\ products' = <<>>
    /\ UNCHANGED <<selectorState, selectedBrand, selectedModel,
                   loadingProducts, searchQuery, pending, issued>>

\* A filter chip: onPress={() => setPriceFilter(filter)}
setPriceFilter(filter) ==
    /\ PanelShown
    /\ priceFilter' = filter
    /\ UNCHANGED <<selectorState, selectedBrand, selectedModel, products,
                   loadingProducts, searchQuery, pending, issued>>

\* ------------------------------------------------- the cache/query layer

\* mutations: { retry: 2 }
retry_ofMutations == 2

\* queries: { retry: 3 }
retry == 3

\* staleTime: 1000 * 60 * 60 * 24
maxAge_ofStaleTime == 1000 * 60 * 60 * 24

\* maxAge: 1000 * 60 * 60 * 24 * 7
maxAge == 1000 * 60 * 60 * 24 * 7

\* buster: 'v1'
buster == "v1"

\* The tag of a release before this one
OlderBuster == "v0"

\* One day of the clock, and the days the clock runs for
Day == 1000 * 60 * 60 * 24
MaxDays == 8

QueryKeys == {"K1", "K2"}

\* A query never fetched in this process
idleQuery == [status |-> "idle", failureCount |-> 0, attempts |-> 0]

\* Nothing stored under the persister's key
NoClient == [stored |-> FALSE]

\* The layer of a process that has just started on an empty device
FreshLayer ==
    /\ queries = [k \in QueryKeys |-> idleQuery]
    /\ online = TRUE
    /\ storage = NoClient
    /\ clock = 0
    /\ running = TRUE

\* A query is fetched: with networkMode 'offlineFirst' the first attempt runs
\* whether or not the device is online.
fetchQuery(k) ==
    /\ running
    /\ queries[k].status = "idle"
    /\ queries' = [queries EXCEPT ![k] =
                      [status |-> "fetching", failureCount |-> 0, attempts |-> 1]]
    /\ UNCHANGED <<online, storage, clock, running>>

\* The fetch function resolves.
attemptSucceeds(k) ==
    /\ running
    /\ queries[k].status = "fetching"
    /\ queries' = [queries EXCEPT ![k].status = "success"]
    /\ UNCHANGED <<online, storage, clock, running>>

\* The fetch function rejects: the retryer tries again while failureCount is
\* below retry (after its delay, and only once the device is online), and
\* rejects the query otherwise.
attemptFails(k) ==
    /\ running
    /\ queries[k].status = "fetching"
    /\ queries' = [queries EXCEPT ![k] =
          IF queries[k].failureCount < retry
          THEN IF online
               THEN [status |-> "fetching",
                     failureCount |-> queries[k].failureCount + 1,
                     attempts |-> queries[k].attempts + 1]
               ELSE [status |-> "paused",
                     failureCount |-> queries[k].failureCount + 1,
                     attempts |-> queries[k].attempts]
          ELSE [queries[k] EXCEPT !.status = "error"]]
    /\ UNCHANGED <<online, storage, clock, running>>

\* A paused retry continues when the device is online again.
continueQuery(k) ==
    /\ running
    /\ online
    /\ queries[k].status = "paused"
    /\ queries' = [queries EXCEPT ![k] =
                      [status |-> "fetching",
                       failureCount |-> queries[k].failureCount,
                       attempts |-> queries[k].attempts + 1]]
    /\ UNCHANGED <<online, storage, clock, running>>

\* The device goes offline or comes back.
setOnline(b) ==
    /\ online # b
    /\ online' = b
    /\ UNCHANGED <<queries, storage, clock, running>>

\* A query restored from storage, not fetched in this process
hydratedQuery == [status |-> "success", failureCount |-> 0, attempts |-> 0]

\* dehydrate(queryClient): the keys of the queries that hold data
dehydrate == {k \in QueryKeys : queries[k].status = "success"}

\* The persister writes the cache under its key (throttled, so the write is a
\* step of its own after the change that caused it).
persistClient ==
    /\ running
    /\ storage' = [stored |-> TRUE, timestamp |-> clock, buster |-> buster,
                   clientState |-> dehydrate]
    /\ storage' # storage
    /\ UNCHANGED <<queries, online, clock, running>>

\* A day passes.
tick ==
    /\ clock + Day <= MaxDays * Day
    /\ clock' = clock + Day
    /\ UNCHANGED <<queries, online, storage, running>>

\* The process ends: the cache in memory is gone.
kill ==
    /\ running
    /\ running' = FALSE
    /\ queries' = [k \in QueryKeys |-> idleQuery]
    /\ UNCHANGED <<online, storage, clock>>

\* The provider mounts and restores: a stored client older than maxAge or
\* written under another buster is removed, any other is put into the cache.
restoreClient ==
    /\ ~running
    /\ running' = TRUE
    /\ IF storage.stored
       THEN IF \/ clock - storage.timestamp > maxAge
               \/ storage.buster # buster
            THEN /\ storage' = NoClient
                 /\ UNCHANGED queries
            ELSE /\ queries' = [k \in QueryKeys |->
                                   IF k \in storage.clientState
                                   THEN hydratedQuery ELSE queries[k]]
                 /\ UNCHANGED storage
       ELSE UNCHANGED <<queries, storage>>
    /\ UNCHANGED <<online, clock>>

\* ------------------------------------------------------ the specification

PriceFilters == {"all", "low", "medium", "high"}

\* The texts typed into the search box in a run of the widget
TypedTexts == { <<>>, <<"A","B","C">>, <<"b">> }

\* The walk collapsed -> brands -> models -> products -> models -> brands
\* -> collapsed, by the handlers that take it
GuidedWalk ==
    <<"anchor", "brand", "model", "backToModels", "backToBrands", "anchor">>

\* Events that are no step of a walk through the selector states: typing,
\* picking a filter, the settling of a request
Incidental == {"search", "filter", "resolved", "rejected"}

\* The history after the event named e of the widget, which leaves the store
\* as it is
event(e) ==
    /\ UNCHANGED store
    /\ UNCHANGED layer
    /\ last' = e
    /\ walk' = IF e \in Incidental THEN walk
               ELSE IF /\ walk >= 0
                       /\ walk < Len(GuidedWalk)
                       /\ GuidedWalk[walk + 1] = e
               THEN walk + 1
               ELSE -1
    /\ selections' = IF e = "model" THEN selections + 1 ELSE selections

Init ==
    /\ FreshLayer
    /\ carBrands = loadedBrands
    /\ carModels = loadedModels
    /\ selectorState = "collapsed"
    /\ selectedBrand = Null
    /\ selectedModel = Null
    /\ products = <<>>
    /\ loadingProducts = FALSE
    /\ searchQuery = <<>>
    /\ priceFilter = "all"
    /\ pending = {}
    /\ issued = 0
    /\ last = "init"
    /\ walk = 0
    /\ selections = 0

AnchorPress == handleAnchorPress /\ event("anchor")

BrandPress ==
    \E b \in Range(carBrands) :
        selectorState = "brands" /\ gridItemPress(b) /\ event("brand")

ModelPress ==
    \E m \in Range(carModels) :
        selectorState # "brands" /\ gridItemPress(m) /\ event("model")

BackToModels == handleBackToModels /\ event("backToModels")

BackToBrands == handleBackToBrands /\ event("backToBrands")

ProductPress ==
    \E p \in Catalogue : handleProductPress(p.id) /\ event("product")

ViewAll == viewAllPress /\ event("viewAll")

ClosePanel == closePress /\ event("close")

TypeSearch ==
    \E t \in TypedTexts : setSearchQuery(t) /\ event("search")

PickFilter ==
    \E f \in PriceFilters : setPriceFilter(f) /\ event("filter")

FetchResolved ==
    \E f \in pending : \E r \in Responses(f.car_model_id) :
        fetchResolved(f, r) /\ event("resolved")

FetchRejected ==
    \E f \in pending : fetchRejected(f) /\ event("rejected")

Next ==
    \/ AnchorPress
    \/ BrandPress
    \/ ModelPress
    \/ BackToModels
    \/ BackToBrands
    \/ ProductPress
    \/ ViewAll
    \/ ClosePanel
    \/ TypeSearch
    \/ PickFilter
    \/ FetchResolved
    \/ FetchRejected

Spec == Init /\ [][Next]_vars

\* ------------------------------------------- the filter on its own inputs

\* The keys of the search box
Keys == {"A", "B", "C", "b"}

\* Every list of at most n members of S
ListsUpTo(S, n) == UNION {[1..k -> S] : k \in 0..n}

\* The products panel of model M1 after its request resolved with any list of
\* catalogue products
FilterInit ==
    /\ FreshLayer
    /\ carBrands = loadedBrands
    /\ carModels = loadedModels
    /\ selectorState = "products"
    /\ selectedBrand = loadedBrands[1]
    /\ selectedModel = loadedModels[1]
    /\ products \in ListsUpTo(Catalogue, MaxProducts)
    /\ loadingProducts = FALSE
    /\ searchQuery = <<>>
    /\ priceFilter = "all"
    /\ pending = {}
    /\ issued = 1
    /\ last = "resolved"
    /\ walk = -1
    /\ selections = 1

\* onChangeText with one more character
KeyPress ==
    \E c \in Keys :
        /\ Len(searchQuery) < MaxQueryLen
        /\ setSearchQuery(Append(searchQuery, c))
        /\ event("search")

\* onChangeText with the last character deleted
Backspace ==
    /\ searchQuery # <<>>
    /\ setSearchQuery(SubSeq(searchQuery, 1, Len(searchQuery) - 1))
    /\ event("search")

FilterNext ==
    \/ KeyPress
    \/ Backspace
    \/ PickFilter

FilterSpec == FilterInit /\ [][FilterNext]_vars

\* ------------------------------------------------- the store that changes

\* The store replaces its brand list (emptied, or loaded again); the widget
\* is rendered again with its state kept.
setCarBrands(brands) ==
    /\ carBrands' = brands
    /\ UNCHANGED <<carModels, selectorState, selectedBrand, selectedModel,
                   products, loadingProducts, searchQuery, priceFilter,
                   pending, issued, last, walk, selections>>
    /\ UNCHANGED layer

StoreChange ==
    \E brands \in {<<>>, loadedBrands} :
        brands # carBrands /\ setCarBrands(brands)

\* What the user can do to the widget
UserAction ==
    \/ AnchorPress
    \/ BrandPress
    \/ ModelPress
    \/ BackToModels
    \/ BackToBrands
    \/ ProductPress
    \/ ViewAll
    \/ ClosePanel
    \/ TypeSearch
    \/ PickFilter

StoreNext ==
    \/ Next
    \/ StoreChange

StoreSpec == Init /\ [][StoreNext]_vars

\* -------------------------------------------- the grids on their own inputs

BrandIds ==
    <<"B1", "B2", "B3", "B4", "B5", "B6", "B7", "B8", "B9", "B10", "B11",
      "B12", "B13">>

ModelIds ==
    <<"M1", "M2", "M3", "M4", "M5", "M6", "M7", "M8", "M9", "M10", "M11",
      "M12", "M13">>

\* A store of n brands
brandsOfLength(n) ==
    [i \in 1..n |-> [id |-> BrandIds[i], name |-> <<"c","a","r">>]]

\* A store of models whose i-th model belongs to the brand owner[i]
modelsOwnedBy(owner) ==
    [i \in DOMAIN owner |->
        [id |-> ModelIds[i], name |-> <<"c","a","r">>, brand_id |-> owner[i]]]

\* The collapsed widget over a store of any number of brands, or over a full
\* store of brands and any list of models of the first two brands
GridInit ==
    /\ FreshLayer
    /\ \/ /\ carBrands \in {brandsOfLength(n) : n \in 0..MaxGrid}
          /\ carModels = loadedModels
       \/ /\ carBrands = brandsOfLength(MaxGrid)
          /\ carModels \in {modelsOwnedBy(o) : o \in ListsUpTo({"B1", "B2"}, MaxGrid)}
    /\ selectorState = "collapsed"
    /\ selectedBrand = Null
    /\ selectedModel = Null
    /\ products = <<>>
    /\ loadingProducts = FALSE
    /\ searchQuery = <<>>
    /\ priceFilter = "all"
    /\ pending = {}
    /\ issued = 0
    /\ last = "init"
    /\ walk = 0
    /\ selections = 0

GridNext ==
    \/ AnchorPress
    \/ BrandPress
    \/ BackToBrands

GridSpec == GridInit /\ [][GridNext]_vars

\* --------------------------------------------- the query layer on its own

FetchQuery == \E k \in QueryKeys : fetchQuery(k) /\ UNCHANGED selector

AttemptSucceeds == \E k \in QueryKeys : attemptSucceeds(k) /\ UNCHANGED selector

AttemptFails == \E k \in QueryKeys : attemptFails(k) /\ UNCHANGED selector

ContinueQuery == \E k \in QueryKeys : continueQuery(k) /\ UNCHANGED selector

NetworkChange == \E b \in BOOLEAN : setOnline(b) /\ UNCHANGED selector

QueryNext ==
    \/ FetchQuery
    \/ AttemptSucceeds
    \/ AttemptFails
    \/ ContinueQuery
    \/ NetworkChange

QuerySpec == Init /\ [][QueryNext]_vars

\* --------------------------------------------- persistence across restarts

\* The process is about to start on a device that holds nothing, or what the
\* release before this one stored.
PersistInit ==
    /\ queries = [k \in QueryKeys |-> idleQuery]
    /\ online = TRUE
    /\ storage \in {NoClient,
                    [stored |-> TRUE, timestamp |-> 0, buster |-> OlderBuster,
                     clientState |-> {"K1"}]}
    /\ clock = 0
    /\ running = FALSE
    /\ carBrands = loadedBrands
    /\ carModels = loadedModels
    /\ selectorState = "collapsed"
    /\ selectedBrand = Null
    /\ selectedModel = Null
    /\ products = <<>>
    /\ loadingProducts = FALSE
    /\ searchQuery = <<>>
    /\ priceFilter = "all"
    /\ pending = {}
    /\ issued = 0
    /\ last = "init"
    /\ walk = 0
    /\ selections = 0

PersistClient == persistClient /\ UNCHANGED selector

Tick == tick /\ UNCHANGED selector

Kill == kill /\ UNCHANGED selector

RestoreClient == restoreClient /\ UNCHANGED selector

PersistNext ==
    \/ FetchQuery
    \/ AttemptSucceeds
    \/ PersistClient
    \/ Tick
    \/ Kill
    \/ RestoreClient

PersistSpec == PersistInit /\ [][PersistNext]_vars

\* ------------------------------------------------------------ serial use

\* The user acts only while no request is pending.
SerialUserAction == pending = {} /\ UserAction

SerialNext ==
    \/ SerialUserAction
    \/ FetchResolved
    \/ FetchRejected

SerialSpec == Init /\ [][SerialNext]_vars

\* ------------------------------------------- requests that always settle

\* The request numbered n resolves or rejects.
Settle(n) ==
    \E f \in pending :
        /\ f.seq = n
        /\ \/ \E r \in Responses(f.car_model_id) :
                  fetchResolved(f, r) /\ event("resolved")
           \/ fetchRejected(f) /\ event("rejected")

\* The steps that move the selector or settle a request: the search box and
\* the filter chips touch neither the requests nor loadingProducts.
LiveNext ==
    \/ AnchorPress
    \/ BrandPress
    \/ ModelPress
    \/ BackToModels
    \/ BackToBrands
    \/ ProductPress
    \/ ViewAll
    \/ ClosePanel
    \/ FetchResolved
    \/ FetchRejected

\* Every request made is settled in the end: the promise of productApi.getAll
\* resolves or rejects.
LiveSpec ==
    /\ Init
    /\ [][LiveNext]_vars
    /\ \A n \in 1..MaxFetches : WF_vars(Settle(n))

\* ------------------------------------------------------------ properties

\* Everything a collapse is to clear
AllCleared ==
    /\ selectedBrand = Null
    /\ selectedModel = Null
    /\ products = <<>>
    /\ searchQuery = <<>>
    /\ priceFilter = "all"

\* C1: in every reachable state, selectorState = 'products' implies that a
\* model is selected.
C1_ProductsHasModel ==
    selectorState = "products" => selectedModel # Null

\* C1 witness: the products panel entered a second time, for model M3, after
\* an earlier visit.
C1_SecondVisit ==
    /\ selectorState = "products"
    /\ selectedModel = carModels[3]
    /\ issued = 2

\* C2: in every reachable state, a selected model implies a selected brand.
C2_ModelImpliesBrand ==
    selectedModel # Null => selectedBrand # Null

\* C2 witness: a model and its brand are still selected after the panel was
\* closed and the selector reopened.
C2_SelectionKept ==
    /\ selectorState = "brands"
    /\ selectedModel # Null
    /\ selectedBrand # Null

\* C3: every step that moves the selector into 'collapsed' leaves no brand,
\* no model, no products, an empty search text and the price filter 'all'.
C3_CollapseClearsAll ==
    [][(selectorState # "collapsed" /\ selectorState' = "collapsed")
         => AllCleared']_vars

\* C4: every step into 'brands' leaves no brand and no model selected, that
\* is, in every reachable state with selectorState = 'brands' both are null.
C4_BrandsHasNoSelection ==
    selectorState = "brands" => (selectedBrand = Null /\ selectedModel = Null)

\* C5: along the walk anchor press, brand select, model select,
\* back-to-models, back-to-brands, anchor press, with typing, filter picks
\* and request completions anywhere in between: back-to-models leaves no
\* model and no products, back-to-brands leaves no brand and no model, and
\* the walk ends collapsed with no brand, no model, an empty search text and
\* the price filter 'all'.
C5_GuidedWalkClears ==
    /\ [](walk = 4 => selectedModel = Null)
    /\ [](walk = 5 => (selectedBrand = Null /\ selectedModel = Null))
    /\ [](walk = 6 => /\ selectorState = "collapsed"
                      /\ selectedBrand = Null
                      /\ selectedModel = Null
                      /\ searchQuery = <<>>
                      /\ priceFilter = "all")
    /\ [][(walk = 3 /\ walk' = 4)
            => (selectorState' = "models" /\ selectedModel' = Null
                /\ products' = <<>>)]_vars
    /\ [][(walk = 4 /\ walk' = 5)
            => (selectorState' = "brands" /\ selectedBrand' = Null
                /\ selectedModel' = Null)]_vars

\* C5 witness: the walk is complete while the request of its model selection
\* is still pending.
C5_WalkDone ==
    /\ walk = Len(GuidedWalk)
    /\ last = "anchor"
    /\ selectorState = "collapsed"
    /\ pending # {}

\* C6: a request that fails leaves the product list empty (so the filtered
\* list is empty under every search text and price filter) and the loading
\* flag false, and changes nothing else of the widget.
C6_FailureEmptiesList ==
    /\ [](last = "rejected"
            => /\ products = <<>>
               /\ loadingProducts = FALSE
               /\ \A q \in TypedTexts : \A f \in PriceFilters :
                      filterBy(products, q, f) = <<>>)
    /\ [][last' = "rejected"
            => UNCHANGED <<selectorState, selectedBrand, selectedModel,
                           searchQuery, priceFilter>>]_vars

\* C6 witness: a request has just failed in the products panel, and it was
\* not the first one issued.
C6_FailedOverList ==
    /\ last = "rejected"
    /\ selectorState = "products"
    /\ issued >= 2
    /\ filteredProducts = <<>>

\* C7: while a request is pending the loading flag is true.
C7_PendingImpliesLoading ==
    pending # {} => loadingProducts = TRUE

\* C8: after back-to-models and after back-to-brands the product list is
\* empty.
C8_BackEmptiesProducts ==
    last \in {"backToModels", "backToBrands"} => products = <<>>

\* The price bracket of the claim: low below 100, medium from 100 to below
\* 500, high from 500
Bracket(price) ==
    IF price < 100 THEN "low" ELSE IF price < 500 THEN "medium" ELSE "high"

\* C9: each product matches exactly one of low, medium and high, and 'all'
\* matches every product; a price of 100 is medium and not low, a price of
\* 500 is high and not medium; with no search text the filtered list holds
\* exactly the products of the chosen bracket.
C9_PricePartition ==
    \A i \in DOMAIN products :
        LET p == products[i]
        IN  /\ Cardinality({f \in {"low", "medium", "high"} : matchesPrice(p, f)}) = 1
            /\ matchesPrice(p, "all")
            /\ p.price = 100 => (matchesPrice(p, "medium") /\ ~matchesPrice(p, "low"))
            /\ p.price = 500 => (matchesPrice(p, "high") /\ ~matchesPrice(p, "medium"))
            /\ searchQuery = <<>> =>
                 ((p \in Range(filteredProducts))
                    <=> priceFilter \in {"all", Bracket(p.price)})

\* C9 witness: a list with a product at 100 and one at 500 under 'medium'
\* shows the one at 100 alone.
C9_BoundaryShown ==
    /\ products = <<P2, P1>>
    /\ priceFilter = "medium"
    /\ searchQuery = <<>>
    /\ filteredProducts = <<P1>>

\* The lower-cased form of a text, letter by letter
Lowered(s) ==
    [i \in DOMAIN s |->
        IF s[i] \in {"A", "B", "C"}
        THEN CHOOSE c \in {"a", "b", "c"} :
                 <<s[i], c>> \in {<<"A", "a">>, <<"B", "b">>, <<"C", "c">>}
        ELSE s[i]]

\* q occurs in s
IsSubstring(q, s) ==
    \E k \in 0..(Len(s) - Len(q)) : SubSeq(s, k + 1, k + Len(q)) = q

\* The search predicate of the claim
SearchHolds(p, q) ==
    \/ q = <<>>
    \/ \E f \in {"name", "name_ar", "sku"} \cap DOMAIN p :
           IsSubstring(Lowered(q), Lowered(p[f]))

\* The positions of the products that satisfy both predicates
Kept ==
    {i \in DOMAIN products :
        /\ SearchHolds(products[i], searchQuery)
        /\ priceFilter \in {"all", Bracket(products[i].price)}}

\* The k-th smallest member of a set of numbers
Nth(S, k) == CHOOSE i \in S : Cardinality({j \in S : j < i}) = k - 1

\* C10: the filtered list is the products at the kept positions, in their
\* order; the search text "ABC" matches a product named "abc-123".
C10_FilteredIsSublist ==
    /\ Len(filteredProducts) = Cardinality(Kept)
    /\ \A k \in DOMAIN filteredProducts :
           filteredProducts[k] = products[Nth(Kept, k)]
    /\ (searchQuery = <<"A","B","C">> /\ priceFilter = "all") =>
           \A i \in DOMAIN products :
               products[i].name = <<"a","b","c","-","1","2","3">>
                   => products[i] \in Range(filteredProducts)

\* C10 witness: "ABC" typed over a list of two shows the product named
\* "abc-123" and drops the other.
C10_AbcMatches ==
    /\ searchQuery = <<"A","B","C">>
    /\ products = <<P2, P1>>
    /\ priceFilter = "all"
    /\ filteredProducts = <<P1>>

\* The positions of the models of the selected brand
OwnModels ==
    {i \in DOMAIN carModels : carModels[i].brand_id = selectedBrand.id}

\* C11: the brand grid shows the first min(10, |carBrands|) brands in store
\* order; the model grid shows the first 10, in store order, of the models of
\* the selected brand, and nothing when no brand is selected; every model
\* tile belongs to the selected brand.
C11_GridsCapped ==
    /\ Len(displayBrands) = (IF Len(carBrands) < 10 THEN Len(carBrands) ELSE 10)
    /\ \A i \in DOMAIN displayBrands : displayBrands[i] = carBrands[i]
    /\ selectedBrand = Null => filteredModels = <<>>
    /\ selectedBrand # Null =>
          /\ Len(filteredModels) =
                 (IF Cardinality(OwnModels) < 10 THEN Cardinality(OwnModels) ELSE 10)
          /\ \A k \in DOMAIN filteredModels :
                 /\ filteredModels[k] = carModels[Nth(OwnModels, k)]
                 /\ filteredModels[k].brand_id = selectedBrand.id

\* C11 witness: eleven brands and eleven models of the selected brand, ten
\* tiles of each shown.
C11_BothGridsCut ==
    /\ Len(carBrands) = 11
    /\ Len(displayBrands) = 10
    /\ selectorState = "models"
    /\ selectedBrand = carBrands[1]
    /\ Cardinality(OwnModels) = 11
    /\ Len(filteredModels) = 10

\* C12: while carBrands is empty nothing of the widget is shown and no handler
\* of the user can be invoked, whatever the selector state.
C12_EmptyStoreShowsNothing ==
    Len(carBrands) = 0 =>
        /\ ~BrandCrumbShown
        /\ ~ModelCrumbShown
        /\ ~GridShown
        /\ ~PanelShown
        /\ ~CardsShown
        /\ ~ENABLED UserAction

\* C12 witness: the brand list became empty while the products panel was open
\* on a fetched list.
C12_EmptiedWhileOpen ==
    /\ Len(carBrands) = 0
    /\ selectorState = "products"
    /\ selectedModel # Null
    /\ products # <<>>

\* C13: a query whose fetch function fails every time is tried 4 times, the
\* first attempt and 3 retries, before it is in the error state; a query
\* whose fetch function succeeds within these attempts is never in the error
\* state.
C13_ThreeRetriesThenError ==
    \A k \in QueryKeys :
        /\ queries[k].attempts <= 4
        /\ queries[k].status = "error" =>
              (queries[k].attempts = 4 /\ queries[k].failureCount = 3)
        /\ queries[k].status = "success" =>
              queries[k].attempts = queries[k].failureCount + 1
        /\ queries[k].status \in {"fetching", "paused"} =>
              queries[k].failureCount <= 3

\* C13 witness: one query failed four times and is in error, the other
\* succeeded on its fourth attempt.
C13_FourthAttempt ==
    /\ queries["K1"].status = "error"
    /\ queries["K1"].attempts = 4
    /\ queries["K2"].status = "success"
    /\ queries["K2"].attempts = 4

\* C14: when the process starts, the stored entries are put into the cache
\* if and only if they were stored under the buster 'v1' and are at most 7
\* days old; otherwise the cache starts empty, so what an earlier buster
\* stored is not available.
C14_RestoredIffFreshAndSameBuster ==
    [][(~running /\ running') =>
          IF /\ storage.stored
             /\ storage.buster = "v1"
             /\ clock - storage.timestamp <= 7 * 24 * 60 * 60 * 1000
          THEN {k \in QueryKeys : queries'[k].status = "success"}
                   = storage.clientState
          ELSE {k \in QueryKeys : queries'[k].status = "success"} = {}]_vars

\* C14 witness: entries stored on day 0 are in the cache of a process that
\* never fetched them, on day 7.
C14_RestoredOnDaySeven ==
    /\ running
    /\ storage.stored
    /\ storage.timestamp = 0
    /\ clock = 7 * Day
    /\ queries["K1"] = hydratedQuery
    /\ queries["K2"] = hydratedQuery

\* What a request for the products of a model can leave in products
outcomes(modelId) ==
    {productsOf(r) : r \in Responses(modelId)} \cup {<<>>}

\* C15: a response that arrives late overwrites the list of a newer
\* selection. The products panel with nothing pending can show a list that is
\* no outcome of the request of the selected model, and it does so only after
\* two requests or more were made.
C15_StaleNeedsTwoRequests ==
    (/\ selectorState = "products"
     /\ pending = {}
     /\ products \notin outcomes(selectedModel.id)) => issued >= 2

\* C15 witness: M1 selected, back, M2 selected, and the response for M1 came
\* last: the panel of M2 shows the products of M1 with nothing pending.
C15_StaleOverwrite ==
    /\ selectorState = "products"
    /\ selectedModel.id = "M2"
    /\ issued = 2
    /\ pending = {}
    /\ last = "resolved"
    /\ products = ApiProducts("M1")
    /\ products \notin outcomes("M2")

\* The transitions of selectorState the specification lists
ListedEdges ==
    {<<"collapsed", "brands">>, <<"brands", "models">>,
     <<"models", "products">>, <<"products", "models">>,
     <<"models", "brands">>}
        \cup {<<s, "collapsed">> : s \in {"brands", "models", "products"}}

\* C16: every change of selectorState follows one of the listed edges.
C16_OnlyListedEdges ==
    [][selectorState' # selectorState =>
          <<selectorState, selectorState'>> \in ListedEdges]_vars

\* C17: a model selection makes one request, for the selected model's id
\* with limit 100, and no other step makes a request, so the requests made
\* are as many as the model selections.
C17_OneRequestPerSelection ==
    /\ [](issued = selections)
    /\ [][IF last' = "model" /\ selections' = selections + 1
          THEN /\ issued' = issued + 1
               /\ pending' = pending \cup
                     {[seq |-> issued', car_model_id |-> selectedModel'.id,
                       limit |-> 100]}
          ELSE issued' = issued /\ pending' \subseteq pending]_vars

\* C17 witness: two selections with a back navigation between them, one
\* request failed and one resolved: two requests were made.
C17_TwoSelectionsTwoRequests ==
    /\ selections = 2
    /\ issued = 2
    /\ pending = {}
    /\ last = "rejected"
    /\ selectorState = "products"

\* C18: a step that settles a request leaves selectorState, selectedBrand,
\* selectedModel, searchQuery and priceFilter as they are; selectorState is
\* one of its four values and changes only in a step of the user.
C18_CompletionFrame ==
    /\ [](selectorState \in {"collapsed", "brands", "models", "products"})
    /\ [][(pending' # pending /\ issued' = issued) =>
             UNCHANGED <<selectorState, selectedBrand, selectedModel,
                         searchQuery, priceFilter>>]_vars
    /\ [][selectorState' # selectorState =>
             last' \in {"anchor", "brand", "model", "backToModels",
                        "backToBrands", "product", "viewAll", "close"}]_vars

\* C18 witness: a request resolved while the user had typed a search text
\* and picked a filter, and both are still there.
C18_ResolvedUnderFilter ==
    /\ last = "resolved"
    /\ selectorState = "products"
    /\ searchQuery # <<>>
    /\ priceFilter # "all"
    /\ products # <<>>

\* C19: a change of the search text changes searchQuery alone, a change of
\* the price filter priceFilter alone: products, loadingProducts,
\* selectorState, selectedBrand and selectedModel stay; with the search text
\* '' and the filter 'all', filteredProducts is products.
C19_FilterFrame ==
    /\ [][searchQuery' # searchQuery =>
             UNCHANGED <<priceFilter, products, loadingProducts,
                         selectorState, selectedBrand, selectedModel>>]_vars
    /\ [][priceFilter' # priceFilter =>
             UNCHANGED <<searchQuery, products, loadingProducts,
                         selectorState, selectedBrand, selectedModel>>]_vars
    /\ []((searchQuery = <<>> /\ priceFilter = "all") =>
             filteredProducts = products)

\* C19 witness: the search text was deleted again with the filter 'all', and
\* the two fetched products are both listed.
C19_FilterUndone ==
    /\ last = "search"
    /\ searchQuery = <<>>
    /\ priceFilter = "all"
    /\ Len(products) = 2
    /\ filteredProducts = products

\* C20: a selected model belongs to the selected brand.
C20_ModelOfSelectedBrand ==
    (selectedModel # Null /\ selectedBrand # Null) =>
        selectedModel.brand_id = selectedBrand.id

\* C21: under serial use, the products panel with nothing pending shows the
\* list the request for the selected model returned, or no product if that
\* request failed or returned no list, and loadingProducts is false.
C21_SerialPanelIsCurrent ==
    (selectorState = "products" /\ pending = {}) =>
        /\ ~loadingProducts
        /\ products \in {ApiProducts(selectedModel.id), <<>>}
        /\ last = "resolved" =>
              products \in {productsOf(r) : r \in Responses(selectedModel.id)}
        /\ last = "rejected" => products = <<>>

\* C21 witness: under serial use the panel was opened for M1 and then for
\* M2, whose request resolved: it shows the products of M2.
C21_SecondPanelCurrent ==
    /\ selectorState = "products"
    /\ pending = {}
    /\ issued = 2
    /\ last = "resolved"
    /\ selectedModel.id = "M2"
    /\ products = ApiProducts("M2")
    /\ ~loadingProducts

\* C22: when every request settles, loadingProducts does not stick: a raised
\* flag is lowered in the end, it is down whenever no request is pending,
\* and once down it is raised only by another model selection.
C22_LoadingNeverSticks ==
    /\ loadingProducts ~> ~loadingProducts
    /\ (pending # {}) ~> (pending = {} /\ ~loadingProducts)
    /\ [](pending = {} => ~loadingProducts)
    /\ [][(~loadingProducts /\ loadingProducts') =>
             (last' = "model" /\ selections' = selections + 1)]_vars

\* C22 witness: three model selections were made and every request has
\* settled, the last of them by failing: the flag is down in the panel.
C22_AllSettledFlagDown ==
    /\ selections = 3
    /\ pending = {}
    /\ last = "rejected"
    /\ ~loadingProducts
    /\ selectorState = "products"

====
